---- MODULE Spec2Model ----
(***************************************************************************)
(* GlimpseProject API (main.py, dbconf.py, models.py, schema.py).          *)
(*                                                                         *)
(* The model has three parts:                                              *)
(*   - the leads table and the SQLAlchemy session that process_csv_data    *)
(*     and get_leads use (merge, flush, commit, close);                    *)
(*   - the request handlers of `app` (/, /db-status, /leads/, /files/),    *)
(*     each request running get_database_session around its handler;       *)
(*   - the `python main.py` start-up path (startup_event and               *)
(*     comprehensive_db_check).                                            *)
(*                                                                         *)
(* Python values.  A str is a tuple of one-character strings; None is the  *)
(* tuple <<"None">>, which is no str because "None" is not one character.  *)
(* A Python int is unbounded: it is kept as a sign and a decimal magnitude *)
(* (a tuple of digits without leading zeros), so that int() of a cell is a *)
(* real conversion and the 32-bit range of the INTEGER column can be       *)
(* compared against without overflow in the checker.                       *)
(***************************************************************************)
EXTENDS Integers, Sequences, FiniteSets, TLC

\* ------------------------------------------------------------------ bounds

\* Longest CSV file (data rows) a client uploads.
MaxRows == 2

\* Sessions SessionLocal() hands out before the model stops taking requests
\* that need one.
MaxSessions == 3

\* Concurrent requests in flight.
NReq == 2

\* --------------------------------------------------------- Python values

None == <<"None">>

Digits == <<"0", "1", "2", "3", "4", "5", "6", "7", "8", "9">>

IsDigit(c) == \E d \in 1..10 : Digits[d] = c

DigitVal(c) == (CHOOSE d \in 1..10 : Digits[d] = c) - 1

IsSpace(c) == c = " "

\* str.strip(): int() ignores surrounding whitespace.
RECURSIVE LStrip(_)
LStrip(s) ==
    IF s # <<>> /\ IsSpace(Head(s)) THEN LStrip(Tail(s)) ELSE s

RECURSIVE RStrip(_)
RStrip(s) ==
    IF s # <<>> /\ IsSpace(s[Len(s)]) THEN RStrip(SubSeq(s, 1, Len(s) - 1)) ELSE s

Strip(s) == RStrip(LStrip(s))

HasSign(s) == s # <<>> /\ Head(s) \in {"+", "-"}

Unsigned(s) == IF HasSign(s) THEN Tail(s) ELSE s

\* Magnitude without leading zeros; zero is <<0>>.
RECURSIVE Normal(_)
Normal(m) ==
    IF Len(m) > 1 /\ Head(m) = 0 THEN Normal(Tail(m)) ELSE m

\* int(x) succeeds: x is a str that, stripped, is an optional sign followed
\* by one or more decimal digits.  int(None) raises TypeError, anything else
\* ValueError.
CanInt(x) ==
    /\ x # None
    /\ LET u == Unsigned(Strip(x))
       IN  u # <<>> /\ \A i \in 1..Len(u) : IsDigit(u[i])

\* int(x) for a cell CanInt accepts: "01", " 1" and "+1" are all the int 1.
IntOf(x) ==
    LET t == Strip(x)
        u == Unsigned(t)
        m == Normal([i \in 1..Len(u) |-> DigitVal(u[i])])
    IN  [neg |-> (Head(t) = "-" /\ m # <<0>>), mag |-> m]

\* Magnitude comparison a <= b on normal decimal magnitudes.
RECURSIVE LexLeq(_, _)
LexLeq(a, b) ==
    IF a = <<>> THEN TRUE
    ELSE IF Head(a) # Head(b) THEN Head(a) < Head(b)
    ELSE LexLeq(Tail(a), Tail(b))

MagLeq(a, b) == Len(a) < Len(b) \/ (Len(a) = Len(b) /\ LexLeq(a, b))

\* ------------------------------------------------------- models.py: Lead

\* Column(Integer): a PostgreSQL INTEGER holds -2147483648 .. 2147483647.
Int32Max == <<2, 1, 4, 7, 4, 8, 3, 6, 4, 7>>

Int32MinMag == <<2, 1, 4, 7, 4, 8, 3, 6, 4, 8>>

InInteger(n) == IF n.neg THEN MagLeq(n.mag, Int32MinMag) ELSE MagLeq(n.mag, Int32Max)

\* Column(String(100)): VARCHAR(100).
ColumnLen == 100

\* nullable=True, String(100).
FitsColumn(v) == v = None \/ Len(v) <= ColumnLen

\* The constructor call Lead(id=..., lead_name=..., ...).
Lead(id, lead_name, email, source, interest_level, status, salesperson) ==
    [id |-> id, lead_name |-> lead_name, email |-> email, source |-> source,
     interest_level |-> interest_level, status |-> status,
     salesperson |-> salesperson]

\* What the leads table accepts of a row at INSERT or UPDATE.
Storable(l) ==
    /\ InInteger(l.id)
    /\ FitsColumn(l.lead_name)
    /\ FitsColumn(l.email)
    /\ FitsColumn(l.source)
    /\ FitsColumn(l.interest_level)
    /\ FitsColumn(l.status)
    /\ FitsColumn(l.salesperson)

\* ------------------------------------------- main.py: process_csv_data

\* dict.get(key): the value, or None when the key is missing.
Get(row, key) == IF key \in DOMAIN row THEN row[key] ELSE None

\* The body of the try (lines 95-103) up to the merge: row["Lead ID"] raises
\* KeyError when the column is missing, int() raises on a cell it cannot read.
RowRaises(row) == "Lead ID" \notin DOMAIN row \/ ~CanInt(row["Lead ID"])

RowLead(row) ==
    Lead(IntOf(row["Lead ID"]),
         Get(row, "Lead Name"),
         Get(row, "Contact Information"),
         Get(row, "Source"),
         Get(row, "Interest Level"),
         Get(row, "Status"),
         Get(row, "Assigned Salesperson"))

\* A Session: `identity` are the persistent rows it has loaded (its identity
\* map, with the attribute values set since), `new` the pending instances
\* added and not yet flushed, `commits` the commits it has been asked for.
NewSession == [identity |-> {}, new |-> <<>>, commits |-> 0]

\* Session.merge(lead) with autoflush=False (dbconf.py line 25).  The identity
\* map is looked up first; otherwise the row is SELECTed by primary key, which
\* raises when the store is unreachable.  A row that is found is loaded and
\* takes every attribute of `lead`; one that is not becomes a new pending
\* instance.  Pending instances are not in the identity map and nothing is
\* flushed, so a second merge of the same new id adds a second instance.
MergeRaises(s, store, lead, up) ==
    /\ ~\E p \in s.identity : p.id = lead.id
    /\ ~up

Merge(s, store, lead) ==
    IF \E p \in s.identity : p.id = lead.id
    THEN [s EXCEPT !.identity = {p \in @ : p.id # lead.id} \cup {lead}]
    ELSE IF \E p \in store : p.id = lead.id
    THEN [s EXCEPT !.identity = @ \cup {lead}]
    ELSE [s EXCEPT !.new = Append(@, lead)]

\* The for loop of process_csv_data from line i on.  A line the csv reader
\* cannot parse raises csv.Error from the iteration itself, outside the try:
\* the loop is left without the commit.  A row whose mapping or merge raises
\* is skipped by the except clause.
IsBadLine(line) == "csv.Error" \in DOMAIN line

\* Rows, counting the rows it skips.
RECURSIVE RowsCountingSkipped(_, _, _, _, _, _)
RowsCountingSkipped(lines, i, s, processed, store, up) ==
    IF i > Len(lines) THEN [raised |-> FALSE, session |-> s, processed |-> processed]
    ELSE IF IsBadLine(lines[i])
    THEN [raised |-> TRUE, session |-> s, processed |-> processed]
    ELSE IF RowRaises(lines[i]) \/ MergeRaises(s, store, RowLead(lines[i]), up)
    THEN RowsCountingSkipped(lines, i + 1, s, processed + 1, store, up)
    ELSE RowsCountingSkipped(lines, i + 1, Merge(s, store, RowLead(lines[i])),
                             processed + 1, store, up)

RECURSIVE Rows(_, _, _, _, _, _)
Rows(lines, i, s, processed, store, up) ==
    IF i > Len(lines) THEN [raised |-> FALSE, session |-> s, processed |-> processed]
    ELSE IF IsBadLine(lines[i])
    THEN [raised |-> TRUE, session |-> s, processed |-> processed]
    ELSE IF RowRaises(lines[i]) \/ MergeRaises(s, store, RowLead(lines[i]), up)
    THEN Rows(lines, i + 1, s, processed, store, up)
    ELSE Rows(lines, i + 1, Merge(s, store, RowLead(lines[i])), processed + 1, store, up)

\* The flush of db.commit(): every pending instance is INSERTed and every
\* loaded row UPDATEd.  The store refuses a value outside a column's type
\* (DataError) and a second row with an existing primary key
\* (IntegrityError); either fails the whole transaction.
FlushRaises(s, store) ==
    \/ \E i \in 1..Len(s.new) : ~Storable(s.new[i])
    \/ \E p \in s.identity : ~Storable(p)
    \/ \E i, j \in 1..Len(s.new) : i # j /\ s.new[i].id = s.new[j].id
    \/ \E i \in 1..Len(s.new) : \E p \in store : p.id = s.new[i].id

Flushed(s, store) ==
    {p \in store : ~\E q \in s.identity : q.id = p.id}
        \cup s.identity \cup {s.new[i] : i \in 1..Len(s.new)}

\* process_csv_data, were the rows the store accepts to stay when the commit
\* fails.
process_csv_data_partial(contents, store, up) ==
    IF ~contents.decodable
    THEN [raised |-> TRUE, processed |-> 0, store |-> store, session |-> NewSession]
    ELSE LET r == Rows(contents.lines, 1, NewSession, 0, store, up)
             c == [r.session EXCEPT !.commits = @ + 1]
             kept == {r.session.new[i] : i \in 1..Len(r.session.new)}
         IN  IF r.raised \/ FlushRaises(r.session, store)
             THEN [raised |-> TRUE, processed |-> r.processed,
                   store |-> store \cup {l \in kept : Storable(l)
                                             /\ ~\E p \in store : p.id = l.id},
                   session |-> c]
             ELSE [raised |-> FALSE, processed |-> r.processed,
                   store |-> Flushed(r.session, store), session |-> c]

\* process_csv_data(contents, db).  `raised` says whether it left by an
\* exception; `store` is the leads table when it returned or raised.
process_csv_data(contents, store, up) ==
    IF ~contents.decodable
    THEN [raised |-> TRUE, processed |-> 0, store |-> store, session |-> NewSession]
    ELSE LET r == Rows(contents.lines, 1, NewSession, 0, store, up)
             c == [r.session EXCEPT !.commits = @ + 1]
         IN  IF r.raised
             THEN [raised |-> TRUE, processed |-> r.processed, store |-> store,
                   session |-> r.session]
             ELSE IF FlushRaises(r.session, store)
             THEN [raised |-> TRUE, processed |-> r.processed, store |-> store,
                   session |-> c]
             ELSE [raised |-> FALSE, processed |-> r.processed,
                   store |-> Flushed(r.session, store), session |-> c]

\* --------------------------------------------------- main.py: upload_file

\* upload_file after `contents = await file.read()`.  `exc` is what the body
\* of the try raised: nothing, the HTTPException(400) of the else branch, or
\* the exception process_csv_data left by.  The clause `except Exception`
\* catches either (HTTPException is an Exception) and raises
\* HTTPException(500).
TryBodyJsonAsCsv(content_type, contents, store, up) ==
    IF content_type \in {"application/json", "text/csv"}
    THEN LET r == process_csv_data(contents, store, up)
         IN  [exc |-> IF r.raised THEN "Exception" ELSE "none",
              processed_count |-> r.processed, store |-> r.store, session |-> r.session]
    ELSE [exc |-> "HTTPException(400)", processed_count |-> 0, store |-> store,
          session |-> NewSession]

TryBody(content_type, contents, store, up) ==
    IF content_type = "application/json"
    THEN [exc |-> "none", processed_count |-> 0, store |-> store, session |-> NewSession]
    ELSE IF content_type = "text/csv"
    THEN LET r == process_csv_data(contents, store, up)
         IN  [exc |-> IF r.raised THEN "Exception" ELSE "none",
              processed_count |-> r.processed, store |-> r.store, session |-> r.session]
    ELSE [exc |-> "HTTPException(400)", processed_count |-> 0, store |-> store,
          session |-> NewSession]

upload_file(content_type, contents, store, up) ==
    LET b == TryBody(content_type, contents, store, up)
    IN  IF b.exc = "none"
        THEN [status |-> 200, processed_count |-> b.processed_count,
              store |-> b.store, session |-> b.session]
        ELSE [status |-> 500, processed_count |-> 0,
              store |-> b.store, session |-> b.session]

\* ----------------------------------------------------- main.py: get_leads

\* Optional[int] = None for the id parameter.
NoId == [neg |-> FALSE, mag |-> <<>>]

\* One query.filter(column == value) for an optional parameter.
Filter(q, column, value) ==
    IF value # None THEN {l \in q : l[column] = value} ELSE q

\* get_leads, were the other filters applied to a query by id as well.
get_leads_filtering(p, store) ==
    Filter(Filter(Filter(Filter(Filter(
        IF p.id # NoId THEN {l \in store : l.id = p.id} ELSE store,
             "lead_name", p.name),
             "source", p.source),
             "interest_level", p.interest_level),
             "status", p.status),
             "salesperson", p.salesperson)

\* The query get_leads builds: the id filter alone when id is given, else
\* the filters of the parameters that are given, one after the other.
get_leads(p, store) ==
    IF p.id # NoId
    THEN {l \in store : l.id = p.id}
    ELSE Filter(Filter(Filter(Filter(Filter(store,
             "lead_name", p.name),
             "source", p.source),
             "interest_level", p.interest_level),
             "status", p.status),
             "salesperson", p.salesperson)

\* ------------------------------------------------------ dbconf.py checks

\* test_connection(): SELECT 1 on a fresh connection; SQLAlchemyError is
\* caught and turned into False.
test_connection(up) == up

\* check_migration_status(): the revision the store records against the head
\* of the migration scripts; any exception (the store unreachable) is False.
check_migration_status(up, current_rev, head_rev) == up /\ current_rev = head_rev

\* check_schema_drift(): compare_metadata returns the operations that would
\* bring the store to models.py; any at all, or any exception, is False.
check_schema_drift(up, operations) == up /\ operations = {}

\* `if os.getenv("RAILWAY_ENVIRONMENT_NAME")`: unset (None) and the empty
\* string are both false.
Truthy(v) == v # None /\ v # <<>>

\* ------------------------------------------------------------------ state

VARIABLES
    leads,      \* the committed rows of table `leads`
    dbUp,       \* the store accepts connections
    pc,         \* per request: "idle", "handler", "responded"
    req,        \* per request: the request being served
    resp,       \* per request: the response of the handler
    db,         \* per request: the session get_database_session yielded
    nextSid,    \* identity of the next object SessionLocal() creates
    file,       \* the file a client holds and posts to /files/
    posts,      \* how many times the client has posted it
    env,        \* value of RAILWAY_ENVIRONMENT_NAME
    dbRev,      \* revision recorded in the store (alembic_version)
    headRev,    \* head revision of the migration scripts
    diff,       \* operations compare_metadata reports
    spc,        \* where `python main.py` is
    ran,        \* the checks comprehensive_db_check has run, with outcomes
    log,        \* what the start-up path has printed
    result      \* what comprehensive_db_check returned

storeVars == <<leads, dbUp>>

reqVars == <<pc, req, resp, db, nextSid>>

clientVars == <<file, posts>>

startVars == <<env, dbRev, headRev, diff, spc, ran, log, result>>

vars == <<leads, dbUp, pc, req, resp, db, nextSid, file, posts,
          env, dbRev, headRev, diff, spc, ran, log, result>>

Requests == 1..NReq

NoParams ==
    [id |-> NoId, name |-> None, source |-> None, interest_level |-> None,
     status |-> None, salesperson |-> None]

NoContents == [decodable |-> TRUE, lines |-> <<>>]

NoReq ==
    [endpoint |-> "", content_type |-> "", contents |-> NoContents,
     params |-> NoParams]

NoResp == [status |-> 0, processed_count |-> 0, leads |-> {}, commits |-> 0]

NoDb == [sid |-> 0, open |-> FALSE]

\* Endpoints declaring `db: Session = Depends(dbconf.get_database_session)`.
NeedsDb(endpoint) == endpoint \in {"GET /leads/", "POST /files/"}

\* ------------------------------------------- dbconf.py: get_database_session

\* SessionLocal(): a new Session object each call.
SessionLocal(n) == [sid |-> n, open |-> TRUE]

\* get_database_session up to its yield, for a request to an endpoint that
\* depends on it.
Enter(r, q) ==
    /\ pc[r] = "idle"
    /\ NeedsDb(q.endpoint)
    /\ nextSid <= MaxSessions
    /\ db' = [db EXCEPT ![r] = SessionLocal(nextSid)]
    /\ nextSid' = nextSid + 1
    /\ req' = [req EXCEPT ![r] = q]
    /\ resp' = [resp EXCEPT ![r] = NoResp]
    /\ pc' = [pc EXCEPT ![r] = "handler"]

OpenSession(r, q) ==
    /\ Enter(r, q)
    /\ UNCHANGED <<storeVars, clientVars, startVars>>

\* Once the request is over, the server keeps of the response only the
\* status it sent.
Sent(answer) == [NoResp EXCEPT !.status = answer.status]

\* The finally clause of get_database_session: db.close(), whatever the
\* handler did.  Closing discards what the session had not committed.
\* Closed, were the session closed on the success path only.
ClosedOnSuccess(d, status) == IF status = 200 THEN [d EXCEPT !.open = FALSE] ELSE d

Closed(d, status) == [d EXCEPT !.open = FALSE]

CloseSession(r) ==
    /\ pc[r] = "responded"
    /\ NeedsDb(req[r].endpoint)
    /\ db' = [db EXCEPT ![r] = Closed(@, resp[r].status)]
    /\ pc' = [pc EXCEPT ![r] = "idle"]
    /\ req' = [req EXCEPT ![r] = NoReq]
    /\ resp' = [resp EXCEPT ![r] = Sent(@)]
    /\ UNCHANGED <<nextSid, storeVars, clientVars, startVars>>

\* A request to an endpoint without dependencies.
Dispatch(r, q) ==
    /\ pc[r] = "idle"
    /\ ~NeedsDb(q.endpoint)
    /\ req' = [req EXCEPT ![r] = q]
    /\ resp' = [resp EXCEPT ![r] = NoResp]
    /\ pc' = [pc EXCEPT ![r] = "handler"]
    /\ UNCHANGED <<db, nextSid, storeVars, clientVars, startVars>>

Complete(r) ==
    /\ pc[r] = "responded"
    /\ ~NeedsDb(req[r].endpoint)
    /\ pc' = [pc EXCEPT ![r] = "idle"]
    /\ req' = [req EXCEPT ![r] = NoReq]
    /\ resp' = [resp EXCEPT ![r] = Sent(@)]
    /\ UNCHANGED <<db, nextSid, storeVars, clientVars, startVars>>

\* --------------------------------------------------------------- handlers

Responds(r, answer) ==
    /\ resp' = [resp EXCEPT ![r] = answer]
    /\ pc' = [pc EXCEPT ![r] = "responded"]
    /\ UNCHANGED <<req, db, nextSid>>

\* GET /
Root(r) ==
    /\ pc[r] = "handler"
    /\ req[r].endpoint = "GET /"
    /\ Responds(r, [NoResp EXCEPT !.status = 200])
    /\ UNCHANGED <<storeVars, clientVars, startVars>>

\* GET /db-status: 200 when test_connection() is true, else HTTPException(500).
db_status(up) == IF test_connection(up) THEN 200 ELSE 500

DbStatus(r) ==
    /\ pc[r] = "handler"
    /\ req[r].endpoint = "GET /db-status"
    /\ Responds(r, [NoResp EXCEPT !.status = db_status(dbUp)])
    /\ UNCHANGED <<storeVars, clientVars, startVars>>

\* GET /leads/: query.all() raises when the store is unreachable, which the
\* server answers with 500.
GetLeads(r) ==
    /\ pc[r] = "handler"
    /\ req[r].endpoint = "GET /leads/"
    /\ Responds(r, IF dbUp
                   THEN [NoResp EXCEPT !.status = 200,
                                       !.leads = get_leads(req[r].params, leads)]
                   ELSE [NoResp EXCEPT !.status = 500])
    /\ UNCHANGED <<storeVars, clientVars, startVars>>

\* POST /files/.  After `await file.read()` the coroutine makes blocking
\* calls only (process_csv_data awaits nothing), so it reaches its response
\* without the handler of another request running in between.
UploadFile(r) ==
    /\ pc[r] = "handler"
    /\ req[r].endpoint = "POST /files/"
    /\ LET u == upload_file(req[r].content_type, req[r].contents, leads, dbUp)
       IN  /\ leads' = u.store
           /\ Responds(r, [NoResp EXCEPT !.status = u.status,
                                         !.processed_count = u.processed_count,
                                         !.commits = u.session.commits])
    /\ UNCHANGED <<dbUp, clientVars, startVars>>

\* ------------------------------------------------------------ environment

\* The store becomes unreachable, or reachable again.
StoreDown ==
    /\ dbUp
    /\ dbUp' = FALSE
    /\ UNCHANGED <<leads, reqVars, clientVars, startVars>>

StoreUp ==
    /\ ~dbUp
    /\ dbUp' = TRUE
    /\ UNCHANGED <<leads, reqVars, clientVars, startVars>>

\* The client posts the file it holds to /files/.
MaxPosts == 2

FileRequest(f) ==
    [endpoint |-> "POST /files/", content_type |-> f.content_type,
     contents |-> f.contents, params |-> NoParams]

ClientPost(r) ==
    /\ posts < MaxPosts
    /\ Enter(r, FileRequest(file))
    /\ posts' = posts + 1
    /\ UNCHANGED <<file, storeVars, startVars>>

\* ------------------------------------------- main.py and dbconf.py: start-up

\* What comprehensive_db_check does after one of its three checks: a failed
\* check prints its diagnostic and returns False; a passed one goes on to the
\* next check, the last to "All database checks passed!" and True.
NextCheck ==
    [connection |-> "migration", migration |-> "drift", drift |-> "checked"]

Diagnostic ==
    [connection |-> <<"Database connection failed: e", "Database connection failed">>,
     migration |-> <<"DB Schema Outdated or error", "Migrations not up to date">>,
     drift |-> <<"Schema drift detected! or error", "Schema drift detected">>]

Passed ==
    [connection |-> <<"Database connection successful!">>,
     migration |-> <<"DB Schema Up to Date">>,
     drift |-> <<"Models match database schema", "All database checks passed!">>]

\* AfterCheck, were a failed check not to end the gate.
AfterCheckGoingOn(check, ok) == NextCheck[check]

AfterCheck(check, ok) == IF ok THEN NextCheck[check] ELSE "checked"

Checked(check, ok) ==
    /\ spc = check
    /\ ran' = Append(ran, [check |-> check, ok |-> ok])
    /\ log' = log \o (IF ok THEN Passed[check] ELSE Diagnostic[check])
    /\ spc' = AfterCheck(check, ok)
    /\ result' = IF spc' = "checked" THEN ok ELSE result
    /\ UNCHANGED <<env, dbRev, headRev, diff, storeVars, reqVars, clientVars>>

\* `python main.py` calls startup_event(), which enters
\* comprehensive_db_check: it returns True at once in a managed-hosting
\* environment, and otherwise goes to the connection test.
SkipsChecks(v) == Truthy(v)

StartupEvent ==
    /\ spc = "main"
    /\ log' = Append(log, "Running database health check...")
    /\ IF SkipsChecks(env)
       THEN spc' = "checked" /\ result' = TRUE
       ELSE spc' = "connection" /\ UNCHANGED result
    /\ UNCHANGED <<env, dbRev, headRev, diff, ran, storeVars, reqVars, clientVars>>

\* Step 1 of comprehensive_db_check.
TestConnection == Checked("connection", test_connection(dbUp))

\* Step 2.
CheckMigrationStatus ==
    Checked("migration", check_migration_status(dbUp, dbRev, headRev))

\* Step 3.
CheckSchemaDrift == Checked("drift", check_schema_drift(dbUp, diff))

\* startup_event after comprehensive_db_check returned: RuntimeError when it
\* was False, else on to line 152.
\* AfterStartup, were the result of the gate ignored.
AfterStartupIgnoring(ok) == "port"

AfterStartup(ok) == IF ok THEN "port" ELSE "RuntimeError"

StartupResult ==
    /\ spc = "checked"
    /\ spc' = AfterStartup(result)
    /\ log' = IF result
              THEN log \o <<"All database checks passed", "Starting application...">>
              ELSE log
    /\ UNCHANGED <<env, dbRev, headRev, diff, ran, result, storeVars, reqVars,
                   clientVars>>

\* Line 152, `port = int(os.getenv("PORT", 8888))`: main.py never imports os,
\* so the name lookup raises NameError and uvicorn.run is not reached.
MainPort ==
    /\ spc = "port"
    /\ spc' = "NameError"
    /\ UNCHANGED <<env, dbRev, headRev, diff, ran, log, result, storeVars,
                   reqVars, clientVars>>

\* ----------------------------------------------------------------- inputs

One == IntOf(<<"1">>)

Two == IntOf(<<"2">>)

Three == IntOf(<<"3">>)

\* A value one character longer than a column holds.
LongStr == [i \in 1..(ColumnLen + 1) |-> "a"]

\* 2147483648: an int, but no INTEGER.
BigCell == <<"2", "1", "4", "7", "4", "8", "3", "6", "4", "8">>

IdCells == {<<"1">>, <<"0", "1">>, <<"2">>, <<"x">>, BigCell}

NameCells == {<<"a">>, <<"b">>, LongStr}

Rest(name) ==
    ("Lead Name" :> name) @@ ("Contact Information" :> <<"e">>)
        @@ ("Source" :> <<"w">>) @@ ("Status" :> <<"n">>)

Row(cell, name) == ("Lead ID" :> cell) @@ Rest(name)

\* A line csv.DictReader raises csv.Error on.
BadLine == ("csv.Error" :> None)

Lines ==
    {Row(c, n) : c \in IdCells, n \in NameCells} \cup {Rest(<<"a">>), BadLine}

SeqsUpTo(S, n) == UNION {[1..k -> S] : k \in 0..n}

Undecodable == [decodable |-> FALSE, lines |-> <<>>]

Files ==
    {Undecodable}
        \cup {[decodable |-> TRUE, lines |-> l] : l \in SeqsUpTo(Lines, MaxRows)}

ContentTypes == {"text/csv", "application/json", "image/png"}

\* Rows already in the table.
Old(id) == Lead(id, <<"b">>, <<"o">>, <<"w">>, <<"h">>, <<"n">>, None)

Stores == SUBSET {Old(One), Old(Two)}

SmallFiles ==
    {Undecodable,
     [decodable |-> TRUE, lines |-> <<Row(<<"1">>, <<"a">>)>>],
     [decodable |-> TRUE, lines |-> <<Row(<<"1">>, LongStr)>>],
     [decodable |-> TRUE, lines |-> <<BadLine>>]}

PlainRequests ==
    {[NoReq EXCEPT !.endpoint = e] : e \in {"GET /", "GET /db-status"}}

\* Query parameters of GET /leads/.
Params(ids, values) ==
    [id : ids, name : values, source : values, interest_level : values,
     status : values, salesperson : values]

LeadsRequests(P) == {[NoReq EXCEPT !.endpoint = "GET /leads/", !.params = p] : p \in P}

FileRequests(F) ==
    {FileRequest([content_type |-> t, contents |-> c]) : t \in ContentTypes, c \in F}

DbRequests ==
    LeadsRequests(Params({NoId, One}, {None}))
        \cup {FileRequest([content_type |-> "text/csv", contents |-> c]) : c \in SmallFiles}
        \cup {FileRequest([content_type |-> t, contents |-> NoContents]) :
                 t \in ContentTypes \ {"text/csv"}}

\* Tables for the queries: per id no row, or one of a few rows that differ in
\* the filtered columns.
Same(id, v) == Lead(id, v, <<"e">>, v, v, v, v)

QueryRows(id) ==
    {Same(id, <<"a">>), Same(id, <<"b">>), Same(id, None),
     [Same(id, <<"b">>) EXCEPT !.lead_name = <<"a">>],
     [Same(id, <<"a">>) EXCEPT !.salesperson = <<"b">>]}

QueryStores ==
    {s1 \cup s2 : s1 \in {{}} \cup {{l} : l \in QueryRows(One)},
                  s2 \in {{}} \cup {{l} : l \in QueryRows(Two)}}

QueryParams == Params({NoId, One, Three}, {None, <<"a">>})

\* -------------------------------------------------------- specifications

InitRequests ==
    /\ pc = [r \in Requests |-> "idle"]
    /\ req = [r \in Requests |-> NoReq]
    /\ resp = [r \in Requests |-> NoResp]
    /\ db = [r \in Requests |-> NoDb]
    /\ nextSid = 1

InitClient ==
    /\ file = [content_type |-> "text/csv", contents |-> NoContents]
    /\ posts = 0

InitStart ==
    /\ env = None
    /\ dbRev = <<"r", "2">>
    /\ headRev = <<"r", "2">>
    /\ diff = {}
    /\ spc = "main"
    /\ ran = <<>>
    /\ log = <<>>
    /\ result = FALSE

\* The server: requests to the endpoints that use a session, interleaved,
\* against a store that comes and goes.
Init ==
    /\ leads = {}
    /\ dbUp = TRUE
    /\ InitRequests
    /\ InitClient
    /\ InitStart

Next ==
    \/ \E r \in Requests : \E q \in DbRequests : OpenSession(r, q)
    \/ \E r \in Requests : GetLeads(r)
    \/ \E r \in Requests : UploadFile(r)
    \/ \E r \in Requests : CloseSession(r)
    \/ StoreDown
    \/ StoreUp

Spec == Init /\ [][Next]_vars

\* One client posting one file to /files/, again and again, on any table.
InitFiles ==
    /\ leads \in Stores
    /\ dbUp = TRUE
    /\ InitRequests
    /\ file \in [content_type : ContentTypes, contents : Files]
    /\ posts = 0
    /\ InitStart

NextFiles ==
    \/ ClientPost(1)
    \/ UploadFile(1)
    \/ CloseSession(1)

SpecFiles == InitFiles /\ [][NextFiles]_vars

\* Queries of /leads/ on any table.
InitLeads ==
    /\ leads \in QueryStores
    /\ dbUp = TRUE
    /\ InitRequests
    /\ InitClient
    /\ InitStart

NextLeads ==
    \/ \E q \in LeadsRequests(QueryParams) : OpenSession(1, q)
    \/ GetLeads(1)
    \/ CloseSession(1)

SpecLeads == InitLeads /\ [][NextLeads]_vars

\* `python main.py` in any environment, and requests to / and /db-status,
\* against a store that comes and goes.
InitStartup ==
    /\ leads = {}
    /\ dbUp \in BOOLEAN
    /\ InitRequests
    /\ InitClient
    /\ env \in {None, <<>>, <<"p", "r", "o", "d">>}
    /\ dbRev \in {None, <<"r", "1">>, <<"r", "2">>}
    /\ headRev = <<"r", "2">>
    /\ diff \in {{}, {"add_column"}}
    /\ spc = "main"
    /\ ran = <<>>
    /\ log = <<>>
    /\ result = FALSE

NextStartup ==
    \/ StartupEvent
    \/ TestConnection
    \/ CheckMigrationStatus
    \/ CheckSchemaDrift
    \/ StartupResult
    \/ MainPort
    \/ StoreDown
    \/ StoreUp
    \/ \E r \in Requests : \E q \in PlainRequests : Dispatch(r, q)
    \/ \E r \in Requests : Root(r)
    \/ \E r \in Requests : DbStatus(r)
    \/ \E r \in Requests : Complete(r)

SpecStartup == InitStartup /\ [][NextStartup]_vars

\* ----------------------------------------------------------------- claims

\* The handler of request r has answered a POST /files/.
Uploaded(r) == pc[r] = "responded" /\ req[r].endpoint = "POST /files/"

\* The step in which the handler of request r answers a POST /files/.
UploadStep(r) ==
    pc[r] = "handler" /\ req[r].endpoint = "POST /files/" /\ pc'[r] = "responded"

\* The cells of the inputs that read as an integer.
IntegerCells == {<<"1">>, <<"0", "1">>, <<"2">>, BigCell}

HasIntegerId(line) ==
    /\ ~IsBadLine(line)
    /\ "Lead ID" \in DOMAIN line
    /\ line["Lead ID"] \in IntegerCells

\* A file the csv reader reads to the end.
Readable(contents) ==
    contents.decodable /\ \A i \in 1..Len(contents.lines) : ~IsBadLine(contents.lines[i])

\* Row i is the last row of the file with its id.
LastOfItsId(lines, i) ==
    \A j \in (i + 1)..Len(lines) :
        ~(HasIntegerId(lines[j]) /\ RowLead(lines[j]).id = RowLead(lines[i]).id)

\* C1: an upload whose content type is neither text/csv nor application/json
\* is answered with status 400, and nothing is committed.
C1_UnsupportedTypeIs400 ==
    \A r \in Requests :
        (Uploaded(r) /\ req[r].content_type \notin {"text/csv", "application/json"})
            => (resp[r].status = 400 /\ resp[r].commits = 0)

\* C2: no row aborts the batch: for a CSV file that can be read, the upload
\* succeeds and every valid row (integer id, values the columns hold) that
\* is the last of its id is in the table afterwards, whatever the other rows
\* are.
C2_NoRowAbortsTheBatch ==
    \A r \in Requests :
        (Uploaded(r) /\ req[r].content_type = "text/csv" /\ Readable(req[r].contents))
            => LET lines == req[r].contents.lines
               IN  /\ resp[r].status = 200
                   /\ \A i \in 1..Len(lines) :
                          (/\ HasIntegerId(lines[i])
                           /\ Storable(RowLead(lines[i]))
                           /\ LastOfItsId(lines, i))
                              => RowLead(lines[i]) \in leads

\* C3: the processed_count of a successful CSV upload is the number of rows
\* with a present, integer "Lead ID"; rows without one add nothing, wherever
\* they stand.
C3_ProcessedCount ==
    \A r \in Requests :
        (Uploaded(r) /\ req[r].content_type = "text/csv" /\ resp[r].status = 200)
            => LET lines == req[r].contents.lines
               IN  resp[r].processed_count
                       = Cardinality({i \in 1..Len(lines) : HasIntegerId(lines[i])})

\* A successful upload with a row without an integer id before a row with
\* one.
C3_Witness ==
    \E r \in Requests :
        /\ Uploaded(r)
        /\ req[r].content_type = "text/csv"
        /\ resp[r].status = 200
        /\ Len(req[r].contents.lines) = 2
        /\ ~HasIntegerId(req[r].contents.lines[1])
        /\ HasIntegerId(req[r].contents.lines[2])
        /\ resp[r].processed_count = 1

\* The table after the rows of a file have been upserted into `store`.
Upserted(store, lines) ==
    {p \in store : \A i \in 1..Len(lines) : RowLead(lines[i]).id # p.id}
        \cup {RowLead(lines[i]) : i \in {k \in 1..Len(lines) : LastOfItsId(lines, k)}}

WholeFileHasIntegerIds(contents) ==
    contents.decodable /\ \A i \in 1..Len(contents.lines) : HasIntegerId(contents.lines[i])

\* C4: uploading a CSV file whose rows all have integer ids leaves one row
\* per id of the file, holding the values of the last row with that id, and
\* the other rows as they were; uploading it again changes nothing.
C4_UpsertIdempotent ==
    [][\A r \in Requests :
           (/\ UploadStep(r)
            /\ req[r].content_type = "text/csv"
            /\ WholeFileHasIntegerIds(req[r].contents))
               => /\ leads' = Upserted(leads, req[r].contents.lines)
                  /\ (posts >= 2 => leads' = leads)]_vars

\* The part of C4 the code does keep: the second upload of a file leaves the
\* table as the first left it.
SecondUploadChangesNothing ==
    [][\A r \in Requests :
           (UploadStep(r) /\ posts >= 2) => leads' = leads]_vars

\* C5: with id given, /leads/ answers with the lead of that id if there is
\* one, at most one record, whatever the other parameters; without id, with
\* the leads that match every parameter given.
C5_IdTakesPrecedence ==
    \A r \in Requests :
        (pc[r] = "responded" /\ req[r].endpoint = "GET /leads/" /\ resp[r].status = 200)
            => LET p == req[r].params
                   out == resp[r].leads
               IN  IF p.id # NoId
                   THEN /\ Cardinality(out) <= 1
                        /\ out = {l \in leads : l.id = p.id}
                   ELSE out = {l \in leads :
                                 /\ p.name # None => l.lead_name = p.name
                                 /\ p.source # None => l.source = p.source
                                 /\ p.interest_level # None
                                        => l.interest_level = p.interest_level
                                 /\ p.status # None => l.status = p.status
                                 /\ p.salesperson # None
                                        => l.salesperson = p.salesperson}

\* A query by id with a name the lead of that id does not have: the lead is
\* returned all the same.
C5_Witness ==
    \E r \in Requests :
        /\ pc[r] = "responded"
        /\ req[r].endpoint = "GET /leads/"
        /\ req[r].params.id = One
        /\ req[r].params.name = <<"a">>
        /\ \E l \in resp[r].leads : l.id = One /\ l.lead_name = <<"b">>

\* C6: an application/json upload never changes the table, and when it is
\* answered with 200 the processed_count is 0.
C6_JsonProcessesNothing ==
    [][\A r \in Requests :
           (UploadStep(r) /\ req[r].content_type = "application/json")
               => /\ leads' = leads
                  /\ resp'[r].commits = 0
                  /\ (resp'[r].status = 200 => resp'[r].processed_count = 0)]_vars

\* A json upload of a file whose rows would all have been upserted as CSV.
C6_Witness ==
    \E r \in Requests :
        /\ Uploaded(r)
        /\ req[r].content_type = "application/json"
        /\ Len(req[r].contents.lines) = 2
        /\ \A i \in 1..2 : /\ HasIntegerId(req[r].contents.lines[i])
                           /\ Storable(RowLead(req[r].contents.lines[i]))
        /\ resp[r].status = 200
        /\ resp[r].processed_count = 0

\* comprehensive_db_check has returned.
CheckReturned == spc \in {"checked", "port", "RuntimeError", "NameError"}

CheckOrder == <<"connection", "migration", "drift">>

\* The diagnostic lines of a check are in the log, one after the other.
Logged(check) ==
    \E k \in 1..(Len(log) - 1) :
        log[k] = Diagnostic[check][1] /\ log[k + 1] = Diagnostic[check][2]

InFlight(r) == pc[r] \in {"handler", "responded"} /\ NeedsDb(req[r].endpoint)

\* C9: every request to /leads/ or /files/ in flight has an open session of
\* its own, no two requests ever hold the same session, and once a request
\* is over its session is closed, whatever the response was.
C9_ScopedSession ==
    /\ \A r \in Requests : InFlight(r) => (db[r].open /\ db[r].sid > 0)
    /\ \A r \in Requests : pc[r] = "idle" => ~db[r].open
    /\ \A r \in Requests : db[r].sid < nextSid
    /\ \A r1, r2 \in Requests :
           (r1 # r2 /\ db[r1].sid > 0) => db[r1].sid # db[r2].sid

\* A request that ended in an error has its session closed while another
\* request is in flight with its own.
C9_Witness ==
    \E r1, r2 \in Requests :
        /\ pc[r1] = "idle"
        /\ resp[r1].status = 500
        /\ db[r1].sid > 0
        /\ ~db[r1].open
        /\ InFlight(r2)
        /\ db[r2].open

\* C10: a CSV upload commits once, after its last row, when it succeeds, and
\* at most once otherwise; when it is answered with an error the table is
\* as it was before the upload.
C10_NoPartialCommit ==
    [][\A r \in Requests :
           (UploadStep(r) /\ req[r].content_type = "text/csv")
               => /\ resp'[r].commits <= 1
                  /\ resp'[r].status = 200 => resp'[r].commits = 1
                  /\ resp'[r].status # 200 => leads' = leads]_vars

\* An upload that failed after a valid first row was merged: the row is not
\* in the table.
C10_Witness ==
    \E r \in Requests :
        /\ Uploaded(r)
        /\ req[r].content_type = "text/csv"
        /\ resp[r].status = 500
        /\ Len(req[r].contents.lines) = 2
        /\ HasIntegerId(req[r].contents.lines[1])
        /\ Storable(RowLead(req[r].contents.lines[1]))
        /\ ~\E l \in leads : l.id = RowLead(req[r].contents.lines[1]).id

====
